---- MODULE Spec2Model ----
(***************************************************************************)
(* Mini Notes: the client-side notes store (notesSlice), the handlers of   *)
(* App, SearchBar, NoteForm and NoteList that dispatch to it, the HTTP     *)
(* requests they leave in flight, and the in-memory note store behind the  *)
(* API.                                                                    *)
(*                                                                         *)
(* Text is a sequence of one-character strings, so that trim() and the     *)
(* case-insensitive substring match are computed, not assumed.  An         *)
(* optional value (string | null, q?: string) is <<>> when absent and      *)
(* <<v>> when present.                                                     *)
(***************************************************************************)
EXTENDS Integers, Sequences, FiniteSets, TLC

\* ---------------------------------------------------------------- bounds
MaxNotes == 2
MaxInFlight == 2

\* what the user can type in the search field and in the form fields
SearchTexts == { <<"B", " ">> }
TitleTexts == { <<"A", " ">> }
ContentTexts == { <<" ", "b">> }

\* ------------------------------------------------------------- text
None == <<>>
Some(v) == <<v>>

IsSpace(c) == c = " "

RECURSIVE TrimStart(_)
TrimStart(s) ==
  IF s # <<>> /\ IsSpace(Head(s)) THEN TrimStart(Tail(s)) ELSE s

RECURSIVE TrimEnd(_)
TrimEnd(s) ==
  IF s # <<>> /\ IsSpace(s[Len(s)]) THEN TrimEnd(SubSeq(s, 1, Len(s) - 1)) ELSE s

\* String.prototype.trim
Trim(s) == TrimEnd(TrimStart(s))

LowerChar(c) == IF c = "A" THEN "a" ELSE IF c = "B" THEN "b" ELSE c

Lower(s) == [i \in 1..Len(s) |-> LowerChar(s[i])]

\* needle occurs in hay as a contiguous substring
Contains(hay, needle) ==
  \E i \in 0..(Len(hay) - Len(needle)) : SubSeq(hay, i + 1, i + Len(needle)) = needle

\* ---------------------------------------------------- note store (server)
ValidationError_titleOnly(t, c) == Trim(t) = <<>>

ValidationError(t, c) == Trim(t) = <<>> \/ Trim(c) = <<>>

NewNote(notes, t, c) ==
  [id |-> Len(notes) + 1, title |-> t, content |-> c, created_at |-> 10 + Len(notes)]

RECURSIVE SelectNotes_caseSensitive(_, _)
SelectNotes_caseSensitive(notes, q) ==
  IF notes = <<>> THEN <<>>
  ELSE LET n == Head(notes)
           rest == SelectNotes_caseSensitive(Tail(notes), q)
       IN IF Contains(n.title, q) \/ Contains(n.content, q)
          THEN <<n>> \o rest ELSE rest

RECURSIVE SelectNotes(_, _)
SelectNotes(notes, q) ==
  IF notes = <<>> THEN <<>>
  ELSE LET n == Head(notes)
           rest == SelectNotes(Tail(notes), q)
       IN IF Contains(Lower(n.title), Lower(q)) \/ Contains(Lower(n.content), Lower(q))
          THEN <<n>> \o rest ELSE rest

\* what the store holds when the page is loaded: a note created earlier
InitialStores == { <<NewNote(<<>>, <<"A">>, <<"A">>)>> }

\* GET /notes and GET /notes?q=
List(notes, params) ==
  IF params = None \/ params[1] = <<>> THEN notes ELSE SelectNotes(notes, params[1])

\* ------------------------------------------------------ failures
\* A failure of an HTTP call as the response interceptor sees it: an axios
\* error with an optional response body and its own message, or something
\* else that was thrown.
Failures ==
  { [axios |-> TRUE, isError |-> TRUE, bodyMessage |-> None, detail |-> None,
     message |-> Some("Network Error")],
    [axios |-> FALSE, isError |-> FALSE, bodyMessage |-> None, detail |-> None,
     message |-> None] }

\* every kind of failure the interceptor and the catch blocks tell apart: the
\* above, an error response with error.message, one with detail, an Error
\* that is not an axios error, an axios error without a message
AllFailures ==
  Failures \cup
  { [axios |-> TRUE, isError |-> TRUE, bodyMessage |-> Some("Title is required"),
     detail |-> Some("Unprocessable"), message |-> Some("Request failed with status code 422")],
    [axios |-> TRUE, isError |-> TRUE, bodyMessage |-> None, detail |-> Some("Not Found"),
     message |-> Some("Request failed with status code 404")],
    [axios |-> FALSE, isError |-> TRUE, bodyMessage |-> None, detail |-> None,
     message |-> Some("boom")],
    [axios |-> TRUE, isError |-> TRUE, bodyMessage |-> None, detail |-> None,
     message |-> None] }

\* a ?? b
Coalesce(a, b) == IF a # None THEN a ELSE b

Interceptor_detailFirst(f) ==
  IF f.axios
  THEN [isError |-> TRUE,
        message |-> Coalesce(f.detail,
                     Coalesce(f.bodyMessage,
                       Coalesce(f.message, Some("An unexpected error occurred"))))[1]]
  ELSE [isError |-> f.isError, message |-> Coalesce(f.message, Some(""))[1]]

\* apiClient.interceptors.response: what the rejected promise carries
Interceptor(f) ==
  IF f.axios
  THEN [isError |-> TRUE,
        message |-> Coalesce(f.bodyMessage,
                     Coalesce(f.detail,
                       Coalesce(f.message, Some("An unexpected error occurred"))))[1]]
  ELSE [isError |-> f.isError, message |-> Coalesce(f.message, Some(""))[1]]

FetchRejectValue_noFallback(f) == Interceptor(f).message

\* catch block of fetchNotes
FetchRejectValue(f) ==
  LET e == Interceptor(f) IN IF e.isError THEN e.message ELSE "Failed to fetch notes"

\* catch block of createNote
CreateRejectValue(f) ==
  LET e == Interceptor(f) IN IF e.isError THEN e.message ELSE "Failed to create note"

\* ------------------------------------------------------ notesSlice
initialState ==
  [items |-> <<>>, loading |-> FALSE, creating |-> FALSE, error |-> None, query |-> <<>>]

setQuery_ignoresPayload(s, payload) == s

setQuery(s, payload) == [s EXCEPT !.query = payload]

clearError_resetsCreating(s) == [s EXCEPT !.error = None, !.creating = FALSE]

clearError(s) == [s EXCEPT !.error = None]

fetchNotes_pending_keepsError(s) == [s EXCEPT !.loading = TRUE]

fetchNotes_pending(s) == [s EXCEPT !.loading = TRUE, !.error = None]

fetchNotes_fulfilled_clearsError(s, payload) ==
  [s EXCEPT !.loading = FALSE, !.items = payload, !.error = None]

fetchNotes_fulfilled_merges(s, payload) ==
  [s EXCEPT !.loading = FALSE, !.items = s.items \o payload]

fetchNotes_fulfilled(s, payload) == [s EXCEPT !.loading = FALSE, !.items = payload]

fetchNotes_rejected_keepsLoading(s, payload) ==
  [s EXCEPT !.error = Coalesce(payload, Some("Failed to fetch notes"))]

fetchNotes_rejected_clearsItems(s, payload) ==
  [s EXCEPT !.loading = FALSE, !.items = <<>>,
            !.error = Coalesce(payload, Some("Failed to fetch notes"))]

fetchNotes_rejected(s, payload) ==
  [s EXCEPT !.loading = FALSE, !.error = Coalesce(payload, Some("Failed to fetch notes"))]

createNote_pending_setsLoading(s) ==
  [s EXCEPT !.creating = TRUE, !.loading = TRUE, !.error = None]

createNote_pending(s) == [s EXCEPT !.creating = TRUE, !.error = None]

createNote_fulfilled_prepends(s, payload) ==
  [s EXCEPT !.creating = FALSE, !.items = <<payload>> \o s.items]

createNote_fulfilled(s, payload) ==
  [s EXCEPT !.creating = FALSE, !.items = Append(s.items, payload)]

createNote_rejected_stopsLoading(s, payload) ==
  [s EXCEPT !.creating = FALSE, !.loading = FALSE,
            !.error = Coalesce(payload, Some("Failed to create note"))]

createNote_rejected(s, payload) ==
  [s EXCEPT !.creating = FALSE, !.error = Coalesce(payload, Some("Failed to create note"))]

\* params of the GET issued by the fetchNotes thunk for thunk argument arg
FetchParams(arg) == IF arg # None /\ arg[1] # <<>> THEN Some(arg[1]) ELSE None

\* the argument handleSearch passes to fetchNotes
SearchArg(q) == IF q # <<>> THEN Some(q) ELSE None

\* the argument handleCreate passes to fetchNotes after a fulfilled create
RefetchArg(s) == None

\* ------------------------------------------------------ state
VARIABLES
  state,        \* the notes slice of the store
  input,        \* SearchBar: text of the search field
  title,        \* NoteForm: text of the title field
  content,      \* NoteForm: text of the content field
  mounted,      \* NoteList's mount effect has run
  fetches,      \* GET /notes calls in flight, in the order they were issued
  creates,      \* POST /notes calls in flight, in the order they were issued
  serverNotes,  \* the note store's collection
  pc,           \* where the awaiting handlers are: idle, handleCreate, handleSubmit
  last,         \* the slice action dispatched last: type, payload, the request's position
                \* among those in flight, whether an error was stored before it,
                \* whether it dropped a note from items, the failure it reports, the
                \* created note it re-fetches for
  hist          \* payload of the last fulfilled fetch, notes appended since, text of
                \* the last search submission, the first request sent

vars ==
  <<state, input, title, content, mounted, fetches, creates, serverNotes, pc, last, hist>>

Elems(seq) == {seq[k] : k \in 1..Len(seq)}

Remove(seq, i) == SubSeq(seq, 1, i - 1) \o SubSeq(seq, i + 1, Len(seq))

Init ==
  /\ state = initialState
  /\ input = <<>>
  /\ title = <<>>
  /\ content = <<>>
  /\ mounted = FALSE
  /\ fetches = <<>>
  /\ creates = <<>>
  /\ serverNotes \in InitialStores
  /\ pc = "idle"
  /\ last = [type |-> "@@INIT", payload |-> <<>>, pos |-> 0, hadError |-> FALSE,
            dropped |-> FALSE]
  /\ hist = [fetched |-> <<>>, appended |-> <<>>, submitted |-> <<>>, first |-> None]

\* history h once request r has been sent
Sent(h, r) == IF h.first = None THEN [h EXCEPT !.first = Some(r)] ELSE h

\* dispatch(fetchNotes(arg)) on slice state s: the pending action is reduced
\* and the GET is sent before dispatch returns
DispatchFetch(s, arg, refetch, h) ==
  /\ Len(fetches) < MaxInFlight
  /\ hist' = Sent(h, [method |-> "GET", params |-> FetchParams(arg)])
  /\ state' = fetchNotes_pending(s)
  /\ fetches' = Append(fetches,
                  [arg |-> arg, params |-> FetchParams(arg), resp |-> None,
                   refetch |-> refetch])
  /\ last' = [type |-> "notes/fetchNotes/pending", payload |-> arg, pos |-> Len(fetches) + 1,
               hadError |-> s.error # None, dropped |-> FALSE]

\* NoteList: useEffect(() => dispatch(fetchNotes()), [dispatch])
Mount_noFetch ==
  /\ ~mounted
  /\ mounted' = TRUE
  /\ UNCHANGED <<state, input, title, content, fetches, creates, serverNotes, pc, last, hist>>

Mount ==
  /\ ~mounted
  /\ mounted' = TRUE
  /\ DispatchFetch(state, None, None, hist)
  /\ UNCHANGED <<input, title, content, creates, serverNotes, pc>>

Interactive == mounted /\ pc = "idle"

\* SearchBar: onChange of the search field (disabled while loading)
TypeSearch(t) ==
  /\ Interactive
  /\ ~state.loading
  /\ input' = t
  /\ UNCHANGED <<state, title, content, mounted, fetches, creates, serverNotes, pc, last, hist>>

\* App.handleSearch(query)
handleSearch(q) ==
  DispatchFetch(setQuery(state, q), SearchArg(q), None, [hist EXCEPT !.submitted = q])

Search_ignoresLoading ==
  /\ Interactive
  /\ handleSearch(Trim(input))
  /\ UNCHANGED <<input, title, content, mounted, creates, serverNotes, pc>>

Search_noTrim ==
  /\ Interactive
  /\ ~state.loading
  /\ handleSearch(input)
  /\ UNCHANGED <<input, title, content, mounted, creates, serverNotes, pc>>

\* SearchBar.handleSearch: the Search button or Enter (both disabled while loading)
Search ==
  /\ Interactive
  /\ ~state.loading
  /\ handleSearch(Trim(input))
  /\ UNCHANGED <<input, title, content, mounted, creates, serverNotes, pc>>

\* SearchBar.handleClear: the Clear button, rendered when the field is not empty
Clear ==
  /\ Interactive
  /\ input # <<>>
  /\ input' = <<>>
  /\ handleSearch(<<>>)
  /\ UNCHANGED <<title, content, mounted, creates, serverNotes, pc>>

\* NoteForm: onChange of the title field (disabled while creating)
TypeTitle(t) ==
  /\ Interactive
  /\ ~state.creating
  /\ title' = t
  /\ UNCHANGED <<state, input, content, mounted, fetches, creates, serverNotes, pc, last, hist>>

\* NoteForm: onChange of the content field (disabled while creating)
TypeContent(t) ==
  /\ Interactive
  /\ ~state.creating
  /\ content' = t
  /\ UNCHANGED <<state, input, title, mounted, fetches, creates, serverNotes, pc, last, hist>>

isValid_titleOnly == Len(Trim(title)) > 0

isValid == Len(Trim(title)) > 0 /\ Len(Trim(content)) > 0

Submit_ignoresCreating ==
  /\ Interactive
  /\ Len(serverNotes) < MaxNotes
  /\ IF ~isValid
     THEN UNCHANGED <<state, creates, last, hist>>
     ELSE /\ state' = createNote_pending(state)
          /\ hist' = Sent(hist, [method |-> "POST", params |-> None])
          /\ creates' = Append(creates,
                          [data |-> [title |-> Trim(title), content |-> Trim(content)],
                           resp |-> None])
          /\ last' = [type |-> "notes/createNote/pending", payload |-> <<>>, pos |-> Len(creates) + 1,
                       hadError |-> state.error # None, dropped |-> FALSE]
  /\ UNCHANGED <<input, title, content, mounted, fetches, serverNotes, pc>>

\* NoteForm.handleSubmit up to its await, App.handleCreate up to its await
Submit ==
  /\ Interactive
  /\ Len(serverNotes) < MaxNotes
  /\ IF ~isValid \/ state.creating
     THEN UNCHANGED <<state, creates, last, hist>>
     ELSE /\ state' = createNote_pending(state)
          /\ hist' = Sent(hist, [method |-> "POST", params |-> None])
          /\ creates' = Append(creates,
                          [data |-> [title |-> Trim(title), content |-> Trim(content)],
                           resp |-> None])
          /\ last' = [type |-> "notes/createNote/pending", payload |-> <<>>, pos |-> Len(creates) + 1,
                       hadError |-> state.error # None, dropped |-> FALSE]
  /\ UNCHANGED <<input, title, content, mounted, fetches, serverNotes, pc>>

\* NoteList: onClose of the error Alert, rendered when not loading and error is set
DismissError ==
  /\ Interactive
  /\ ~state.loading
  /\ state.error # None
  /\ state' = clearError(state)
  /\ last' = [type |-> "notes/clearError", payload |-> <<>>, pos |-> 0, hadError |-> TRUE,
              dropped |-> FALSE]
  /\ UNCHANGED <<input, title, content, mounted, fetches, creates, serverNotes, pc, hist>>

\* the API answers GET /notes
ServeFetch(i) ==
  /\ fetches[i].resp = None
  /\ fetches' = [fetches EXCEPT ![i].resp = Some(List(serverNotes, fetches[i].params))]
  /\ UNCHANGED <<state, input, title, content, mounted, creates, serverNotes, pc, last, hist>>

ValidationFailure ==
  [axios |-> TRUE, isError |-> TRUE, bodyMessage |-> Some("Validation error"), detail |-> None,
   message |-> Some("Request failed with status code 422")]

\* the API answers POST /notes
ServeCreate(i) ==
  /\ creates[i].resp = None
  /\ LET d == creates[i].data IN
       IF ValidationError(d.title, d.content)
       THEN /\ creates' = [creates EXCEPT ![i].resp =
                             Some([ok |-> FALSE, failure |-> ValidationFailure])]
            /\ UNCHANGED serverNotes
       ELSE LET n == NewNote(serverNotes, Trim(d.title), Trim(d.content)) IN
            /\ serverNotes' = Append(serverNotes, n)
            /\ creates' = [creates EXCEPT ![i].resp = Some([ok |-> TRUE, data |-> n])]
  /\ UNCHANGED <<state, input, title, content, mounted, fetches, pc, last, hist>>

FetchFulfilled_dropsOlder(i) ==
  /\ pc = "idle"
  /\ fetches[i].resp # None
  /\ LET payload == fetches[i].resp[1] IN
       /\ state' = fetchNotes_fulfilled(state, payload)
       /\ last' = [type |-> "notes/fetchNotes/fulfilled", payload |-> payload, pos |-> i,
                   hadError |-> FALSE, dropped |-> ~Elems(state.items) \subseteq Elems(payload),
                   refetch |-> fetches[i].refetch]
       /\ hist' = [hist EXCEPT !.fetched = payload, !.appended = <<>>]
  /\ fetches' = SubSeq(fetches, i + 1, Len(fetches))
  /\ UNCHANGED <<input, title, content, mounted, creates, serverNotes, pc>>

\* a GET resolves: fetchNotes.fulfilled
FetchFulfilled(i) ==
  /\ pc = "idle"
  /\ fetches[i].resp # None
  /\ LET payload == fetches[i].resp[1] IN
       /\ state' = fetchNotes_fulfilled(state, payload)
       /\ last' = [type |-> "notes/fetchNotes/fulfilled", payload |-> payload, pos |-> i,
                   hadError |-> FALSE, dropped |-> ~Elems(state.items) \subseteq Elems(payload),
                   refetch |-> fetches[i].refetch]
       /\ hist' = [hist EXCEPT !.fetched = payload, !.appended = <<>>]
  /\ fetches' = Remove(fetches, i)
  /\ UNCHANGED <<input, title, content, mounted, creates, serverNotes, pc>>

\* a GET fails (no answer, timeout, error status): fetchNotes.rejected
FetchRejected(i, f) ==
  /\ pc = "idle"
  /\ state' = fetchNotes_rejected(state, Some(FetchRejectValue(f)))
  /\ last' = [type |-> "notes/fetchNotes/rejected", payload |-> Some(FetchRejectValue(f)),
              pos |-> i, hadError |-> FALSE, dropped |-> FALSE, failure |-> f,
              rejectedWithValue |-> TRUE]
  /\ fetches' = Remove(fetches, i)
  /\ UNCHANGED <<input, title, content, mounted, creates, serverNotes, pc, hist>>

\* a POST resolves with 201: createNote.fulfilled; handleCreate is resumed next
CreateFulfilled(i) ==
  /\ pc = "idle"
  /\ creates[i].resp # None
  /\ creates[i].resp[1].ok
  /\ Len(fetches) < MaxInFlight
  /\ LET note == creates[i].resp[1].data IN
       /\ state' = createNote_fulfilled(state, note)
       /\ last' = [type |-> "notes/createNote/fulfilled", payload |-> Some(note), pos |-> i,
                   hadError |-> FALSE, dropped |-> FALSE]
       /\ hist' = [hist EXCEPT !.appended = Append(@, note)]
  /\ creates' = Remove(creates, i)
  /\ pc' = "handleCreate"
  /\ UNCHANGED <<input, title, content, mounted, fetches, serverNotes>>

\* the failures a POST in flight can end in: a transport failure at any
\* time, or the error response the API sent
CreateFailures(i) ==
  IF creates[i].resp # None /\ ~creates[i].resp[1].ok
  THEN {creates[i].resp[1].failure}
  ELSE AllFailures

\* a POST fails: createNote.rejected; handleCreate is resumed next
CreateRejected(i, f) ==
  /\ pc = "idle"
  /\ f \in CreateFailures(i)
  /\ state' = createNote_rejected(state, Some(CreateRejectValue(f)))
  /\ last' = [type |-> "notes/createNote/rejected", payload |-> Some(CreateRejectValue(f)),
              pos |-> i, hadError |-> FALSE, dropped |-> FALSE, failure |-> f,
              rejectedWithValue |-> TRUE]
  /\ creates' = Remove(creates, i)
  /\ pc' = "handleCreate"
  /\ UNCHANGED <<input, title, content, mounted, fetches, serverNotes, hist>>

HandleCreateResume_alwaysRefetches ==
  /\ pc = "handleCreate"
  /\ DispatchFetch(state, RefetchArg(state), last.payload, hist)
  /\ pc' = "handleSubmit"
  /\ UNCHANGED <<input, title, content, mounted, creates, serverNotes>>

\* App.handleCreate after its await (result is the action dispatched last):
\* re-fetch if the create was fulfilled
HandleCreateResume ==
  /\ pc = "handleCreate"
  /\ IF last.type = "notes/createNote/fulfilled"
     THEN DispatchFetch(state, RefetchArg(state), last.payload, hist)
     ELSE UNCHANGED <<state, fetches, last, hist>>
  /\ pc' = "handleSubmit"
  /\ UNCHANGED <<input, title, content, mounted, creates, serverNotes>>

\* NoteForm.handleSubmit after its await: the fields are reset
HandleSubmitResume ==
  /\ pc = "handleSubmit"
  /\ title' = <<>>
  /\ content' = <<>>
  /\ pc' = "idle"
  /\ UNCHANGED <<state, input, mounted, fetches, creates, serverNotes, last, hist>>

Next ==
  \/ Mount
  \/ \E t \in SearchTexts : TypeSearch(t)
  \/ Search
  \/ Clear
  \/ \E t \in TitleTexts : TypeTitle(t)
  \/ \E t \in ContentTexts : TypeContent(t)
  \/ Submit
  \/ DismissError
  \/ \E i \in 1..Len(fetches) : ServeFetch(i)
  \/ \E i \in 1..Len(creates) : ServeCreate(i)
  \/ \E i \in 1..Len(fetches) : FetchFulfilled(i)
  \/ \E i \in 1..Len(fetches), f \in Failures : FetchRejected(i, f)
  \/ \E i \in 1..Len(creates) : CreateFulfilled(i)
  \/ \E i \in 1..Len(creates), f \in Failures \cup {ValidationFailure} : CreateRejected(i, f)
  \/ HandleCreateResume
  \/ HandleSubmitResume

Spec == Init /\ [][Next]_vars

\* ------------------------------------------------------ the search bar alone
\* what is typed into the search field: blank texts and padded texts
SearchInputs == { <<" ">>, <<" ", " ">>, <<" ", "B", " ">>, <<"B">> }

NextSearch ==
  \/ Mount
  \/ \E t \in SearchInputs : TypeSearch(t)
  \/ Search
  \/ Clear
  \/ DismissError
  \/ \E i \in 1..Len(fetches) : ServeFetch(i)
  \/ \E i \in 1..Len(fetches) : FetchFulfilled(i)
  \/ \E i \in 1..Len(fetches), f \in Failures : FetchRejected(i, f)

SpecSearch == Init /\ [][NextSearch]_vars

\* ------------------------------------------------------ the create form alone
\* what is typed into the form: blank texts and padded texts
FormTitles == { <<" ">>, <<"A", " ">> }

FormContents == { <<" ">>, <<" ", "b">> }

NextForm ==
  \/ Mount
  \/ \E t \in FormTitles : TypeTitle(t)
  \/ \E t \in FormContents : TypeContent(t)
  \/ Submit
  \/ DismissError
  \/ \E i \in 1..Len(fetches) : ServeFetch(i)
  \/ \E i \in 1..Len(creates) : ServeCreate(i)
  \/ \E i \in 1..Len(fetches) : FetchFulfilled(i)
  \/ \E i \in 1..Len(fetches), f \in AllFailures : FetchRejected(i, f)
  \/ \E i \in 1..Len(creates) : CreateFulfilled(i)
  \/ \E i \in 1..Len(creates), f \in AllFailures \cup {ValidationFailure} : CreateRejected(i, f)
  \/ HandleCreateResume
  \/ HandleSubmitResume

SpecForm == Init /\ [][NextForm]_vars

\* Every request is answered or fails within the timeout of apiClient, and
\* the event loop runs every response handler and every continuation.
FetchSettles ==
  \E i \in 1..Len(fetches) :
    FetchFulfilled(i) \/ \E f \in AllFailures : FetchRejected(i, f)

CreateSettles ==
  \E i \in 1..Len(creates) :
    CreateFulfilled(i) \/ \E f \in AllFailures \cup {ValidationFailure} : CreateRejected(i, f)

SpecFormLive ==
  /\ SpecForm
  /\ SF_vars(FetchSettles)
  /\ SF_vars(CreateSettles)
  /\ WF_vars(HandleCreateResume)
  /\ WF_vars(HandleSubmitResume)

\* ------------------------------------------------------ the note cards
\* NoteCardInner: the length up to which the content is shown whole
PreviewLimit == 150

preview_cutsAtLimit(c) ==
  IF Len(c) >= PreviewLimit THEN SubSeq(c, 1, PreviewLimit) \o <<".", ".", ".">> ELSE c

\* NoteCardInner: the preview of a content
preview(c) ==
  IF Len(c) > PreviewLimit THEN SubSeq(c, 1, PreviewLimit) \o <<".", ".", ".">> ELSE c

\* what NoteList renders for a note: key, title and preview
NoteCard(note) == [key |-> note.id, title |-> note.title, preview |-> preview(note.content)]

\* a text of n characters, c and d in turn
Text(n, c, d) == [i \in 1..n |-> IF i % 2 = 1 THEN c ELSE d]

\* contents around the limit, of letters and of dots
CardContents ==
  { Text(n, cd[1], cd[2]) : n \in {1, 2, 3, 149, 150, 151, 152, 153, 154, 300},
                             cd \in { <<"a", "b">>, <<".", "a">> } }

\* stores that hold one note with such a content
CardStores == { <<NewNote(<<>>, <<"A">>, c)>> : c \in CardContents }

InitCard ==
  /\ state = initialState
  /\ input = <<>>
  /\ title = <<>>
  /\ content = <<>>
  /\ mounted = FALSE
  /\ fetches = <<>>
  /\ creates = <<>>
  /\ serverNotes \in CardStores
  /\ pc = "idle"
  /\ last = [type |-> "@@INIT", payload |-> <<>>, pos |-> 0, hadError |-> FALSE,
            dropped |-> FALSE]
  /\ hist = [fetched |-> <<>>, appended |-> <<>>, submitted |-> <<>>, first |-> None]

\* NoteList renders the card of the k-th note of items (not while loading)
RenderCard(k) ==
  /\ Interactive
  /\ ~state.loading
  /\ last' = [type |-> "NoteCard/render", payload |-> NoteCard(state.items[k]), pos |-> k,
              hadError |-> FALSE, dropped |-> FALSE]
  /\ UNCHANGED <<state, input, title, content, mounted, fetches, creates, serverNotes, pc, hist>>

NextCard ==
  \/ Mount
  \/ \E i \in 1..Len(fetches) : ServeFetch(i)
  \/ \E i \in 1..Len(fetches) : FetchFulfilled(i)
  \/ \E i \in 1..Len(fetches), f \in Failures : FetchRejected(i, f)
  \/ DismissError
  \/ \E k \in 1..Len(state.items) : RenderCard(k)

SpecCard == InitCard /\ [][NextCard]_vars

\* ------------------------------------------------------ the API alone
\* A client of the API that awaits each call before the next, as the
\* backend tests do: bodies and queries of every kind, valid or not.
StoreTexts == { <<>>, <<" ">>, <<"A">>, <<" ", "b">>, <<"a", "B">> }

StoreQueries == { None, Some(<<>>), Some(<<"a">>), Some(<<"B">>), Some(<<"A", "b">>) }

\* client.post("/notes", json={title, content})
ApiPost(t, c) ==
  /\ fetches = <<>> /\ creates = <<>>
  /\ Len(serverNotes) < MaxNotes
  /\ creates' = <<[data |-> [title |-> t, content |-> c], resp |-> None]>>
  /\ UNCHANGED <<state, input, title, content, mounted, fetches, serverNotes, pc, last, hist>>

\* client.get("/notes", params)
ApiGet(params) ==
  /\ fetches = <<>> /\ creates = <<>>
  /\ fetches' = <<[arg |-> params, params |-> params, resp |-> None, refetch |-> None]>>
  /\ UNCHANGED <<state, input, title, content, mounted, creates, serverNotes, pc, last, hist>>

\* the awaited call returns
ApiReturn ==
  /\ \/ fetches # <<>> /\ fetches[1].resp # None
     \/ creates # <<>> /\ creates[1].resp # None
  /\ fetches' = <<>>
  /\ creates' = <<>>
  /\ UNCHANGED <<state, input, title, content, mounted, serverNotes, pc, last, hist>>

NextStore ==
  \/ \E t \in StoreTexts, c \in StoreTexts : ApiPost(t, c)
  \/ \E params \in StoreQueries : ApiGet(params)
  \/ \E i \in 1..Len(creates) : ServeCreate(i)
  \/ \E i \in 1..Len(fetches) : ServeFetch(i)
  \/ ApiReturn

SpecStore == Init /\ [][NextStore]_vars

\* ------------------------------------------------------ properties
FetchCompletes == Len(fetches') < Len(fetches)
CreateCompletes == Len(creates') < Len(creates)
FetchIsFulfilled == FetchCompletes /\ last'.type = "notes/fetchNotes/fulfilled"
FetchIsRejected == FetchCompletes /\ last'.type = "notes/fetchNotes/rejected"
CreateIsFulfilled == CreateCompletes /\ last'.type = "notes/createNote/fulfilled"
CreateIsRejected == CreateCompletes /\ last'.type = "notes/createNote/rejected"

\* the re-fetch of handleCreate has just been dispatched
RefetchIssued ==
  /\ last.type = "notes/fetchNotes/pending"
  /\ last.pos \in 1..Len(fetches)
  /\ fetches[last.pos].refetch # None

\* C1: the fetch that handleCreate issues after a fulfilled create carries the
\* active search query: q = state.query when it is not empty, no q when it is.
C1_RefetchCarriesQuery ==
  RefetchIssued => fetches[last.pos].params = SearchArg(state.query)

\* C2: once the re-fetch triggered by a fulfilled create has been fulfilled and
\* nothing is in flight, items is the store's notes filtered by state.query, in
\* the store's order.
C2_ConvergesToServerTruth ==
  ( /\ last.type = "notes/fetchNotes/fulfilled"
    /\ last.refetch # None
    /\ fetches = <<>>
    /\ creates = <<>> )
  => state.items = List(serverNotes, SearchArg(state.query))

\* C3 as stated: items is always the payload of the fetch fulfilled last (empty
\* before any), whatever else has happened.
C3_ItemsIsLastFetched == state.items = hist.fetched

\* C3 as amended: items is the payload of the fetch fulfilled last (empty before
\* any) followed by the notes of the creates fulfilled since then, in the order
\* their responses arrived.
C3_ItemsIsLastFetchedThenCreated == state.items = hist.fetched \o hist.appended

C3_Witness ==
  /\ hist.fetched # <<>>
  /\ hist.appended # <<>>
  /\ last.type = "notes/fetchNotes/rejected"
  /\ state.items = hist.fetched \o hist.appended

\* C4: loading is true exactly when at least one fetch is in flight.
C4_LoadingIffFetchInFlight == state.loading <=> (fetches # <<>>)

C6_FetchRejectedKeepsItems ==
  [][ FetchIsRejected
      => /\ state'.loading = FALSE
         /\ state'.error # None
         /\ state'.error[1] # ""
         /\ state'.items = state.items
         /\ state'.query = state.query
         /\ state'.creating = state.creating ]_vars

C6_Witness ==
  /\ last.type = "notes/fetchNotes/rejected"
  /\ state.items # <<>>
  /\ ~state.loading
  /\ state.error = Some("Network Error")

\* C7: when a fetch is fulfilled, items becomes exactly the response payload,
\* whatever items held before, and loading becomes false.
C7_FetchFulfilledReplacesItems ==
  [][ FetchIsFulfilled
      => /\ state'.items = fetches[last'.pos].resp[1]
         /\ state'.loading = FALSE ]_vars

\* a fulfilled fetch has removed a note from items that its payload lacks
C7_Witness ==
  /\ last.type = "notes/fetchNotes/fulfilled"
  /\ last.dropped
  /\ state.items = last.payload
  /\ ~state.loading

\* C8: after a fetch is started loading is true and error is null, after a
\* create is started creating is true and error is null, whatever error was
\* stored before.
C8_PendingClearsError ==
  /\ last.type = "notes/fetchNotes/pending" => (state.loading /\ state.error = None)
  /\ last.type = "notes/createNote/pending" => (state.creating /\ state.error = None)

C8_Witness ==
  /\ last.type \in {"notes/fetchNotes/pending", "notes/createNote/pending"}
  /\ last.hadError
  /\ state.error = None

\* C9: when a create is fulfilled, the note of the response becomes the last
\* element of items, the elements before it are the former items in their
\* order, and creating becomes false.
C9_CreateFulfilledAppends ==
  [][ CreateIsFulfilled
      => /\ state'.items = Append(state.items, creates[last'.pos].resp[1].data)
         /\ state'.creating = FALSE ]_vars

C9_Witness ==
  /\ last.type = "notes/createNote/fulfilled"
  /\ Len(state.items) >= 2
  /\ state.items[Len(state.items)] = last.payload[1]
  /\ state.items[1] # last.payload[1]
  /\ ~state.creating

\* C10: when a create is rejected, creating becomes false, error holds the
\* message of the failure, and items, loading and query stay what they were.
C10_CreateRejectedKeepsItems ==
  [][ CreateIsRejected
      => /\ state'.creating = FALSE
         /\ state'.error \in {Some(CreateRejectValue(f)) : f \in CreateFailures(last'.pos)}
         /\ state'.items = state.items
         /\ state'.loading = state.loading
         /\ state'.query = state.query ]_vars

C10_Witness ==
  /\ last.type = "notes/createNote/rejected"
  /\ state.error = Some("Network Error")
  /\ state.loading
  /\ state.items # <<>>
  /\ ~state.creating

C12_QueryIsLastSubmission == state.query = hist.submitted

\* the trimmed input is still the query after a create was fulfilled and
\* after a fetch was rejected
C12_Witness ==
  /\ state.query = <<"B">>
  /\ input = <<"B", " ">>
  /\ hist.appended # <<>>
  /\ last.type = "notes/fetchNotes/rejected"

\* C14: once the re-fetch (no filter) that follows a successful create is
\* fulfilled, the created note is in items exactly once, with the id, title,
\* content and created_at of the create response.
C14_CreatedNoteFetchedOnce ==
  (last.type = "notes/fetchNotes/fulfilled" /\ last.refetch # None)
  => /\ Cardinality({i \in 1..Len(state.items) : state.items[i].id = last.refetch[1].id}) = 1
     /\ \E i \in 1..Len(state.items) : state.items[i] = last.refetch[1]

\* the re-fetch of a created note has been fulfilled after the note had
\* also been appended by createNote.fulfilled
C14_Witness ==
  /\ last.type = "notes/fetchNotes/fulfilled"
  /\ last.refetch # None
  /\ last.refetch[1].title = <<"A">>
  /\ last.refetch[1].content = <<"b">>
  /\ Len(state.items) = 2

\* C16: at most one create request is in flight, and creating is true
\* exactly when one is.
C16_OneCreateInFlight ==
  /\ Len(creates) <= 1
  /\ state.creating <=> creates # <<>>

\* a valid form is on screen while the one create is in flight, a fetch is in
\* flight too, and a second submit is possible and ignored
C16_Witness ==
  /\ state.creating
  /\ Len(creates) = 1
  /\ fetches # <<>>
  /\ isValid
  /\ ENABLED Submit

ListStep(old, new) ==
  \/ new = old
  \/ Len(new) = Len(old) + 1 /\ SubSeq(new, 1, Len(old)) = old
  \/ \E i \in 1..Len(old) : new = Remove(old, i)
  \/ /\ Len(new) = Len(old)
     /\ \A i \in 1..Len(old) : [new[i] EXCEPT !.resp = None] = [old[i] EXCEPT !.resp = None]

\* C17: no request is retried: a step issues at most one request and a step
\* that completes a request issues none; a fetch is issued only by mount, by
\* a search or clear, or once after a fulfilled create; a create only by a
\* submit; after a rejected create the handlers issue nothing.
C17_NoAutomaticRetry ==
  [][ /\ ListStep(fetches, fetches')
      /\ ListStep(creates, creates')
      /\ Len(fetches') + Len(creates') <= Len(fetches) + Len(creates) + 1
      /\ Len(fetches') > Len(fetches)
         => /\ creates' = creates
            /\ \/ ~mounted /\ mounted' /\ fetches'[Len(fetches')].refetch = None
               \/ mounted /\ pc = "idle" /\ fetches'[Len(fetches')].refetch = None
               \/ /\ pc = "handleCreate"
                  /\ last.type = "notes/createNote/fulfilled"
                  /\ fetches'[Len(fetches')].refetch = last.payload
      /\ Len(creates') > Len(creates)
         => fetches' = fetches /\ mounted /\ pc = "idle"
      /\ (pc = "handleCreate" /\ last.type = "notes/createNote/fulfilled" /\ pc' # pc)
         => Len(fetches') = Len(fetches) + 1
      /\ (pc = "handleCreate" /\ last.type = "notes/createNote/rejected")
         => Len(fetches') = Len(fetches) /\ Len(creates') = Len(creates)
      /\ pc = "handleSubmit"
         => Len(fetches') = Len(fetches) /\ Len(creates') = Len(creates) ]_vars

\* a create was rejected, its handlers have resumed, and no request is in flight
C17_Witness ==
  /\ pc = "handleSubmit"
  /\ last.type = "notes/createNote/rejected"
  /\ fetches = <<>>
  /\ creates = <<>>

\* C18: a step that starts or completes a fetch leaves creating as it was,
\* and a step that starts or completes a create leaves loading as it was.
C18_FlagsAreIndependent ==
  [][ /\ Len(fetches') # Len(fetches) => state'.creating = state.creating
      /\ Len(creates') # Len(creates) => state'.loading = state.loading ]_vars

\* a create has been fulfilled while a fetch is pending
C18_Witness ==
  /\ last.type = "notes/createNote/fulfilled"
  /\ state.loading
  /\ ~state.creating
  /\ fetches # <<>>

\* C20: before the list is mounted nothing has been sent and the mount fetch
\* needs no user action; once mounted, the first request sent is GET /notes
\* with no q parameter.
C20_FirstRequestIsMountFetch ==
  /\ ~mounted => hist.first = None /\ fetches = <<>> /\ creates = <<>> /\ ENABLED Mount
  /\ mounted => hist.first = Some([method |-> "GET", params |-> None])

\* the mount fetch is the only request in flight
C20_Witness ==
  /\ mounted
  /\ Len(fetches) = 1
  /\ fetches[1].params = None
  /\ fetches[1].refetch = None
  /\ last.type = "notes/fetchNotes/pending"
  /\ hist.submitted = <<>>
  /\ creates = <<>>

Blank(t) == \A i \in 1..Len(t) : IsSpace(t[i])

Padded(t) == t # <<>> /\ (IsSpace(t[1]) \/ IsSpace(t[Len(t)]))

\* C13: no fetch in flight carries a blank or padded q; the fetch a search
\* has just issued carries no q when the search text is blank, and the
\* trimmed text as q otherwise.
C13_BlankSearchFetchesAll ==
  /\ \A i \in 1..Len(fetches) :
       fetches[i].params # None
       => ~Blank(fetches[i].params[1]) /\ ~Padded(fetches[i].params[1])
  /\ last.type = "notes/fetchNotes/pending"
     => fetches[last.pos].params =
          IF Blank(input) THEN None ELSE Some(Trim(input))

\* a search with a whitespace-only text has issued a fetch without q while
\* the notes of the mount fetch are shown
C13_Witness ==
  /\ input = <<" ", " ">>
  /\ last.type = "notes/fetchNotes/pending"
  /\ fetches[last.pos].params = None
  /\ state.query = <<>>
  /\ state.loading
  /\ state.items # <<>>

\* C15: while the title or the content of the form is blank a submit changes
\* neither the store nor the requests in flight; every create in flight
\* carries a title and a content that are non-empty and not padded.
C15_InvalidSubmitIsIgnored ==
  /\ (Blank(title) \/ Blank(content))
     => ~ENABLED (Submit /\ (state' # state \/ creates' # creates \/ fetches' # fetches))
  /\ \A i \in 1..Len(creates) :
       /\ ~Blank(creates[i].data.title) /\ ~Padded(creates[i].data.title)
       /\ ~Blank(creates[i].data.content) /\ ~Padded(creates[i].data.content)

\* a submit is possible with a whitespace-only title and a content with
\* text, after a create with padded texts was sent and rejected
C15_Witness ==
  /\ title = <<" ">>
  /\ content = <<" ", "b">>
  /\ ~state.creating
  /\ ENABLED Submit
  /\ last.type = "notes/createNote/rejected"
  /\ creates = <<>>

\* C19: after a rejected fetch or create, error holds a string: the message
\* of the failure the catch block received when that is an Error, the
\* fallback of the operation otherwise; the operation's flag is off again.
C19_FailureIsStoredAsString ==
  /\ last.type = "notes/fetchNotes/rejected"
     => /\ state.error # None
        /\ state.error[1] \in STRING
        /\ state.error[1] = IF Interceptor(last.failure).isError
                            THEN Interceptor(last.failure).message
                            ELSE "Failed to fetch notes"
  /\ last.type = "notes/createNote/rejected"
     => /\ state.error # None
        /\ state.error[1] \in STRING
        /\ state.error[1] = IF Interceptor(last.failure).isError
                            THEN Interceptor(last.failure).message
                            ELSE "Failed to create note"
        /\ ~state.creating

\* a fetch failed with something that is not an Error
C19_Witness ==
  /\ last.type = "notes/fetchNotes/rejected"
  /\ ~last.failure.axios
  /\ ~last.failure.isError
  /\ state.error = Some("Failed to fetch notes")
  /\ ~state.loading

\* C21: when handleSubmit resumes after its await, the title and content
\* fields are reset if the create succeeded and keep what was typed if the
\* create was rejected.
C21_FormClearedOnlyOnSuccess ==
  [][ (pc = "handleSubmit" /\ pc' = "idle")
      => IF last.type = "notes/createNote/rejected"
         THEN title' = title /\ content' = content
         ELSE title' = <<>> /\ content' = <<>> ]_vars

\* C24: items never holds two notes with the same id.
C24_ItemsHaveDistinctIds ==
  \A i, j \in 1..Len(state.items) :
    state.items[i].id = state.items[j].id => i = j

\* C22: when the API answers a POST whose title or content is blank, the
\* answer is an error response with an error body and the stored notes are
\* what they were.
C22_BlankAppendFails ==
  [][ \A i \in 1..Len(creates) :
        ( /\ Len(creates') = Len(creates)
          /\ creates[i].resp = None
          /\ creates'[i].resp # None
          /\ (Blank(creates[i].data.title) \/ Blank(creates[i].data.content)) )
        => /\ ~creates'[i].resp[1].ok
           /\ creates'[i].resp[1].failure.axios
           /\ creates'[i].resp[1].failure.bodyMessage # None
           /\ serverNotes' = serverNotes ]_vars

\* a POST with a title and a whitespace-only content has been refused
C22_Witness ==
  /\ creates # <<>>
  /\ creates[1].data = [title |-> <<"A">>, content |-> <<" ">>]
  /\ creates[1].resp # None
  /\ ~creates[1].resp[1].ok
  /\ Len(serverNotes) = 1

\* needle occurs in hay when the case of the letters is ignored
ContainsCI(hay, needle) ==
  \E k \in 0..(Len(hay) - Len(needle)) :
    \A j \in 1..Len(needle) : LowerChar(hay[k + j]) = LowerChar(needle[j])

Matches(n, params) ==
  \/ params = None
  \/ params[1] = <<>>
  \/ ContainsCI(n.title, params[1])
  \/ ContainsCI(n.content, params[1])

\* r holds the notes of the store that match, each once, in the store's order
IsSelection(r, notes, params) ==
  /\ \A k \in 1..Len(notes) :
       Cardinality({i \in 1..Len(r) : r[i] = notes[k]}) =
         IF Matches(notes[k], params) THEN 1 ELSE 0
  /\ \A i \in 1..Len(r) : \E k \in 1..Len(notes) : r[i] = notes[k]
  /\ \A i, j \in 1..Len(r) :
       i < j => \E k, l \in 1..Len(notes) : k < l /\ r[i] = notes[k] /\ r[j] = notes[l]

\* C23: the answer to a GET is exactly the stored notes whose title or
\* content contains q, case ignored, in insertion order; all notes when q is
\* absent or empty.
C23_ListFilters ==
  [][ \A i \in 1..Len(fetches) :
        ( /\ Len(fetches') = Len(fetches)
          /\ fetches[i].resp = None
          /\ fetches'[i].resp # None )
        => IsSelection(fetches'[i].resp[1], serverNotes, fetches[i].params) ]_vars

\* a query in the other case has selected the second of two notes only
C23_Witness ==
  /\ fetches # <<>>
  /\ fetches[1].params = Some(<<"B">>)
  /\ fetches[1].resp # None
  /\ Len(serverNotes) = 2
  /\ fetches[1].resp[1] = <<serverNotes[2]>>
  /\ serverNotes[2].content = <<"b">>

\* C25: a fetch is issued as a re-fetch only by the handler that resumes
\* after createNote.fulfilled, for the note the store returned, when that
\* create is no longer in flight; the handler that resumes after
\* createNote.rejected issues no fetch.
C25_RefetchOnlyAfterSuccess ==
  [][ /\ (Len(fetches') > Len(fetches) /\ fetches'[Len(fetches')].refetch # None)
         => /\ pc = "handleCreate"
            /\ last.type = "notes/createNote/fulfilled"
            /\ fetches'[Len(fetches')].refetch = last.payload
            /\ \E k \in 1..Len(serverNotes) : serverNotes[k] = last.payload[1]
            /\ ~state.creating
            /\ creates = <<>>
      /\ (pc = "handleCreate" /\ last.type = "notes/createNote/rejected")
         => Len(fetches') <= Len(fetches) ]_vars

\* the re-fetch of a created note is in flight next to the mount fetch and
\* no create is in flight
C25_Witness ==
  /\ pc = "handleSubmit"
  /\ last.type = "notes/fetchNotes/pending"
  /\ Len(fetches) = 2
  /\ fetches[1].refetch = None
  /\ fetches[2].refetch # None
  /\ creates = <<>>

\* C27: error becomes non-null only in a step that rejects a fetch or a
\* create, and then holds that rejection's message; a step that starts a
\* fetch or a create and a dismissal set it to null; a step that fulfils a
\* fetch or a create, and every other step, leaves it as it was.
C27_ErrorOnlyFromRejection ==
  [][ /\ (Len(fetches') > Len(fetches) \/ Len(creates') > Len(creates))
         => state'.error = None
      /\ (Len(fetches') < Len(fetches) \/ Len(creates') < Len(creates))
         => IF last'.type \in {"notes/fetchNotes/rejected", "notes/createNote/rejected"}
            THEN state'.error # None /\ state'.error = last'.payload
            ELSE state'.error = state.error
      /\ (Len(fetches') = Len(fetches) /\ Len(creates') = Len(creates))
         => \/ state'.error = state.error
            \/ state'.error = None /\ last'.type = "notes/clearError" ]_vars

\* the error of a rejected create is still set after the mount fetch, in
\* flight all along, was fulfilled
C27_Witness ==
  /\ last.type = "notes/fetchNotes/fulfilled"
  /\ state.error = Some("Network Error")
  /\ hist.appended = <<>>
  /\ fetches = <<>>
  /\ title = <<>>

\* C28: while loading is true the Search button and Enter can issue no
\* fetch; Clear can whenever the search field is not empty, and the re-fetch
\* whenever a create was fulfilled, whatever loading is.
C28_OnlySearchIsGatedByLoading ==
  /\ state.loading => ~ENABLED Search
  /\ (Interactive /\ ~state.loading /\ Len(fetches) < MaxInFlight) => ENABLED Search
  /\ (Interactive /\ input # <<>> /\ Len(fetches) < MaxInFlight) => ENABLED Clear
  /\ (pc = "handleCreate" /\ last.type = "notes/createNote/fulfilled")
     => ENABLED (HandleCreateResume /\ Len(fetches') = Len(fetches) + 1)

\* a fetch is in flight and loading is true: Search cannot act, Clear can
C28_Witness ==
  /\ state.loading
  /\ fetches # <<>>
  /\ input # <<>>
  /\ ~ENABLED Search
  /\ ENABLED Clear

\* the message a failed HTTP call is to surface
SurfacedMessage(f) ==
  IF f.bodyMessage # None THEN f.bodyMessage[1]
  ELSE IF f.detail # None THEN f.detail[1]
  ELSE IF f.message # None THEN f.message[1]
  ELSE "An unexpected error occurred"

\* C29: after a fetch or a create failed in its HTTP call, error is the
\* response body's error.message if there is one, else the body's detail,
\* else the transport error's message, else 'An unexpected error occurred'.
C29_MessagePrecedence ==
  ( /\ last.type \in {"notes/fetchNotes/rejected", "notes/createNote/rejected"}
    /\ last.failure.axios )
  => state.error = Some(SurfacedMessage(last.failure))

\* a create was refused with a body that has error.message and detail: the
\* error.message is stored
C29_Witness ==
  /\ last.type = "notes/createNote/rejected"
  /\ last.failure.axios
  /\ last.failure.bodyMessage = Some("Title is required")
  /\ last.failure.detail # None
  /\ state.error = Some("Title is required")

\* C26: when every request settles, loading true leads to loading false and
\* creating true leads to creating false; whenever no request is in flight
\* both flags are false.
C26_FlagsEventuallyClear ==
  /\ state.loading ~> ~state.loading
  /\ state.creating ~> ~state.creating
  /\ []((fetches = <<>> /\ creates = <<>>) => (~state.loading /\ ~state.creating))

\* a fetch and a create are in flight unanswered and both flags are on
C26_Witness ==
  /\ state.loading
  /\ state.creating
  /\ Len(fetches) = 1 /\ fetches[1].resp = None
  /\ Len(creates) = 1 /\ creates[1].resp = None

\* C30: the card rendered for a note shows the whole content when it has at
\* most 150 characters, and otherwise its first 150 characters followed by
\* '...'; the card carries the note's id and title, and the note in items is
\* what the store returned.
C30_PreviewTruncatesAt150 ==
  last.type = "NoteCard/render"
  => LET n == state.items[last.pos]
         card == last.payload
     IN /\ Len(n.content) <= 150 => card.preview = n.content
        /\ Len(n.content) > 150
           => /\ Len(card.preview) = 153
              /\ \A i \in 1..150 : card.preview[i] = n.content[i]
              /\ \A i \in 151..153 : card.preview[i] = "."
        /\ card.title = n.title
        /\ card.key = n.id
        /\ n = serverNotes[last.pos]

\* a card was rendered for a content of exactly 150 characters that ends
\* in a letter: it is shown whole
C30_Witness ==
  /\ last.type = "NoteCard/render"
  /\ Len(state.items[1].content) = 150
  /\ state.items[1].content[150] = "a"
  /\ last.payload.preview = state.items[1].content

====
